---- MODULE Spec2Model ----
(***************************************************************************)
(* A model of the Rarefish adapter of src/src/lib.rs (JupiterRarefish):    *)
(* the adapter's fields are the state, new_from_keyed_account gives the    *)
(* initial states, update(), quote() and get_swap_and_account_metas() are  *)
(* actions translated statement by statement, and the last call with its   *)
(* outcome is recorded so that properties can speak about what a call      *)
(* returned.                                                               *)
(*                                                                         *)
(* A Rust panic is an outcome of a call ("Panic"), distinct from a typed   *)
(* error returned through Result ("Err").  A panic unwinds; the instance   *)
(* outlives it whenever the caller catches the unwind or recovers the      *)
(* poisoned lock that guards the instance, so calls may follow a panic.    *)
(***************************************************************************)
EXTENDS Integers, FiniteSets, Sequences, TLC

(***************************************************************************)
(* Bounds of the model.                                                    *)
(***************************************************************************)
\* quote() is called with amounts 0 .. MaxAmount
MaxAmount == 3

(***************************************************************************)
(* Option<T>.                                                              *)
(***************************************************************************)
None == [some |-> FALSE]

Some(x) == [some |-> TRUE, v |-> x]

(***************************************************************************)
(* u64, scaled down to 8 bits: a value is in 0 .. U64Modulus - 1 and a     *)
(* wrapping operation is taken modulo U64Modulus.                          *)
(***************************************************************************)
U64Modulus == 256

\* spl_token_2022's ONE_IN_BASIS_POINTS
ONE_IN_BASIS_POINTS == 10000

(***************************************************************************)
(* Addresses.  The pool account is decoded once, at construction.          *)
(***************************************************************************)
CLOCK_PUBLIC_KEY == "clock"

\* Pubkey::default(), the zero address
DefaultPubkey == "11111111"

HyperplaneId == "hyperplane"

\* the SwapPool decoded from the pool account
SwapPool ==
  [ token_a_mint |-> "mintA", token_b_mint |-> "mintB",
    token_a_vault |-> "vaultA", token_b_vault |-> "vaultB",
    token_a_fees_vault |-> "feesA", token_b_fees_vault |-> "feesB",
    token_a_program |-> DefaultPubkey, token_b_program |-> "token2022",
    pool_authority |-> "authority",
    fees |-> [trade_fee_numerator |-> 1, trade_fee_denominator |-> 2] ]

\* Pubkey::find_program_address(&[SWAP_CURVE, market_key], &program_id).0
pool_curve == "curve"

\* get_accounts_to_update: the last two are "only needed at the start"
get_accounts_to_update ==
  << SwapPool.token_a_vault, SwapPool.token_b_vault, pool_curve,
     CLOCK_PUBLIC_KEY, SwapPool.token_a_mint, SwapPool.token_b_mint >>

(***************************************************************************)
(* Account data as the fetcher supplies it.                                *)
(***************************************************************************)
\* a transfer-fee schedule of a mint: (epoch, maximum_fee, basis points)
TransferFee(e, m, b) ==
  [epoch |-> e, maximum_fee |-> m, transfer_fee_basis_points |-> b]

\* An older schedule of 50% capped at 1, replaced from epoch 1 on by a
\* schedule whose basis points are above ONE_IN_BASIS_POINTS: the extension
\* is read as plain bytes, get_extension does not validate the rate.
FeeConfig ==
  [older_transfer_fee |-> TransferFee(0, 1, 5000),
   newer_transfer_fee |-> TransferFee(1, 200, 30000)]

\* the mint of token A carries no extension, the mint of token B may
MintAAccounts == { [fee |-> None] }

MintBAccounts == { [fee |-> None], [fee |-> Some(FeeConfig)] }

\* token-account balances of the two vaults
BalancesA == {0, 1}

BalancesB == {4}

Epochs == {0, 1}

\* the token account of vault A, of a given balance
VaultAAccounts == { [ok |-> TRUE, amount |-> b] : b \in BalancesA }

\* the token account of vault B, or bytes that are not a token account (too
\* short for the slice, or refused by try_deserialize)
VaultBAccounts ==
  { [ok |-> TRUE, amount |-> b] : b \in BalancesB } \cup { [ok |-> FALSE] }

\* the curve account of the pool
CurveAccounts == { [curve_type |-> "ConstantProduct"] }

Opt(S) == {None} \cup { Some(x) : x \in S }

\* AccountMap restricted to the addresses update() looks up; None: the
\* address is not a key of the map
AccountMaps ==
  [ vaultA : Opt(VaultAAccounts),
    vaultB : Opt(VaultBAccounts),
    curve : Opt(CurveAccounts),
    clock : Opt({ [epoch |-> e] : e \in Epochs }),
    mintA : Opt(MintAAccounts),
    mintB : Opt(MintBAccounts) ]

\* accounts_map.contains_key for every address that every update() needs
\* (the first four of get_accounts_to_update)
HasMandatory(m) ==
  m.vaultA.some /\ m.vaultB.some /\ m.curve.some /\ m.clock.some

\* the mint addresses that are keys of the map
MintKeys(m) ==
  (IF m.mintA.some THEN {SwapPool.token_a_mint} ELSE {})
    \cup (IF m.mintB.some THEN {SwapPool.token_b_mint} ELSE {})

\* QuoteParams
InputMints == { SwapPool.token_a_mint, SwapPool.token_b_mint, "mintC" }

SwapModes == { "ExactIn", "ExactOut" }

VARIABLES
  market_key, pool, token_a_vault, token_b_vault,
  token_a_mint_raw, token_b_mint_raw, curve, last_epoch, label, program_id,
  call,        \* the last call made on the instance, with its arguments
  result,      \* what that call returned
  written,     \* the fields assigned by the last update() call that assigned any
  sync_state   \* the adapter state of the specification (4.4)

vars ==
  << market_key, pool, token_a_vault, token_b_vault, token_a_mint_raw,
     token_b_mint_raw, curve, last_epoch, label, program_id,
     call, result, written, sync_state >>

config == << market_key, pool, label, program_id >>

snapshot ==
  << token_a_vault, token_b_vault, token_a_mint_raw, token_b_mint_raw,
     curve, last_epoch >>

SnapshotFields ==
  {"token_a_mint_raw", "token_b_mint_raw", "last_epoch",
   "token_a_vault", "token_b_vault", "curve"}

(***************************************************************************)
(* new_from_keyed_account                                                  *)
(***************************************************************************)
\* the pool account handed to the constructor: its data starts with the
\* discriminator of SwapPool, or with another one
KeyedAccounts == { [discriminator |-> d] : d \in {"SwapPool", "other"} }

\* AccountDeserialize::try_deserialize(&mut keyed_account.account.data)
\* for SwapPool: an error unless the discriminator is SwapPool's
try_deserialize(keyed_account) ==
  IF keyed_account.discriminator = "SwapPool"
    THEN [kind |-> "Ok", v |-> SwapPool]
    ELSE [kind |-> "Err"]

\* line 41 unwraps the decoded pool: a panic on an error, and then no
\* instance exists (the fields hold nothing, no operation can be called)
new_from_keyed_account(keyed_account) ==
  LET decoded == try_deserialize(keyed_account) IN
  /\ call = [op |-> "new", discriminator |-> keyed_account.discriminator]
  /\ result = IF decoded.kind = "Ok" THEN [kind |-> "Ok"]
                                     ELSE [kind |-> "Panic", line |-> 41]
  /\ pool = IF decoded.kind = "Ok" THEN decoded.v ELSE None
  /\ market_key = "market"
  /\ label = "Rarefish"
  /\ program_id = HyperplaneId
  /\ token_a_vault = None
  /\ token_b_vault = None
  /\ token_a_mint_raw = None
  /\ token_b_mint_raw = None
  /\ curve = None
  /\ last_epoch = 0
  /\ written = {}
  /\ sync_state = IF decoded.kind = "Ok" THEN "Configured" ELSE "Uninitialized"

Init == \E keyed_account \in KeyedAccounts : new_from_keyed_account(keyed_account)

\* the constructor returned an instance, on which the operations are called
Constructed == ~(call.op = "new" /\ result.kind # "Ok")

(***************************************************************************)
(* update                                                                  *)
(***************************************************************************)
\* The statement at which update(m) ends: 96 (unwrap of None) when the curve
\* account is not in the map, 111 / 115 (slice or unwrap) when the bytes of
\* vault A / vault B are not a token account, 128 (Ok) otherwise.
UpdateEnd(m) ==
  IF ~m.curve.some THEN 96
  ELSE IF m.vaultA.some /\ ~m.vaultA.v.ok THEN 111
  ELSE IF m.vaultB.some /\ ~m.vaultB.v.ok THEN 115
  ELSE 128

\* accounts_map.get(key).map(|account| TokenAccount::try_deserialize(..))
VaultOf(a) == IF a.some THEN Some(a.v.amount) ELSE None

\* EpochOf keeping the cached epoch when the clock is not in the map
EpochOfOrCached(a) == IF a.some THEN a.v.epoch ELSE last_epoch

\* accounts_map.get(&CLOCK_PUBLIC_KEY).map(epoch bytes).unwrap_or(0)
EpochOf(a) == IF a.some THEN a.v.epoch ELSE 0

\* accounts_map.get(mint).map(|account| account.clone())
MintOf(a) == a

\* the fields update() has assigned when it ends at statement end (96: none,
\* and the fields keep what the call before assigned)
WrittenAt(end) ==
  IF end = 96 THEN written
  ELSE IF end = 111 THEN {"token_a_mint_raw", "token_b_mint_raw", "last_epoch"}
  ELSE IF end = 115
    THEN {"token_a_mint_raw", "token_b_mint_raw", "last_epoch", "token_a_vault"}
  ELSE SnapshotFields

\* The state of the specification's state machine after update(m): Synced
\* when every mandatory account was resolved, Stale otherwise.
StateAfter(m) ==
  IF HasMandatory(m) /\ UpdateEnd(m) = 128 THEN "Synced" ELSE "Stale"

Update(m) ==
  LET end == UpdateEnd(m) IN
  /\ call' = [op |-> "update",
              complete |-> HasMandatory(m),
              clock |-> m.clock.some,
              mints |-> MintKeys(m),
              \* the map itself, of an update() that returned
              accounts |-> IF end = 128 THEN Some(m) ELSE None]
  /\ IF end = 96
       THEN UNCHANGED snapshot
       ELSE /\ token_a_mint_raw' = MintOf(m.mintA)
            /\ token_b_mint_raw' = MintOf(m.mintB)
            /\ last_epoch' = EpochOf(m.clock)
            /\ token_a_vault' = IF end > 111 THEN VaultOf(m.vaultA) ELSE token_a_vault
            /\ token_b_vault' = IF end > 115 THEN VaultOf(m.vaultB) ELSE token_b_vault
            /\ curve' = IF end = 128 THEN Some(m.curve.v.curve_type) ELSE curve
  /\ written' = WrittenAt(end)
  /\ result' = IF end = 128 THEN [kind |-> "Ok"] ELSE [kind |-> "Panic", line |-> end]
  /\ sync_state' = StateAfter(m)
  /\ UNCHANGED config

UpdateStep == Constructed /\ \E m \in AccountMaps : Update(m)

(***************************************************************************)
(* Transfer fees (spl_token_2022 TransferFeeConfig).                       *)
(***************************************************************************)
Min(a, b) == IF a <= b THEN a ELSE b

CeilDiv(n, d) == (n + d - 1) \div d

\* TransferFeeConfig::get_epoch_fee
get_epoch_fee(cfg, epoch) ==
  IF epoch >= cfg.newer_transfer_fee.epoch
    THEN cfg.newer_transfer_fee
    ELSE cfg.older_transfer_fee

\* TransferFee::calculate_fee: None when the raw fee does not fit u64
calculate_fee(tf, amount) ==
  IF tf.transfer_fee_basis_points = 0 \/ amount = 0 THEN Some(0)
  ELSE LET raw == CeilDiv(amount * tf.transfer_fee_basis_points, ONE_IN_BASIS_POINTS) IN
       IF raw >= U64Modulus THEN None ELSE Some(Min(raw, tf.maximum_fee))

\* TransferFeeConfig::calculate_epoch_fee
calculate_epoch_fee(cfg, epoch, amount) ==
  calculate_fee(get_epoch_fee(cfg, epoch), amount)

\* hyperplane::swap::utils::sub_input_transfer_fees_with_config, without a
\* host fee: the amount that reaches the pool once the mint's transfer fee
\* is taken, an error when the fee cannot be taken from the amount
sub_input_transfer_fees_with_config(cfg, amount, epoch) ==
  LET fee == calculate_epoch_fee(cfg, epoch, amount) IN
  IF ~fee.some \/ fee.v > amount
    THEN [kind |-> "Err", line |-> 151]
    ELSE [kind |-> "Ok", v |-> amount - fee.v]

(***************************************************************************)
(* The curve (hyperplane SwapCurve::swap), constant product.               *)
(***************************************************************************)
\* Fees::trading_fee
trading_fee(fees, amount) ==
  (amount * fees.trade_fee_numerator) \div fees.trade_fee_denominator

swap(source_amount, swap_source_amount, swap_destination_amount, fees) ==
  IF source_amount = 0 \/ swap_source_amount = 0 \/ swap_destination_amount = 0
    THEN [kind |-> "Err"]
    ELSE LET e == source_amount - trading_fee(fees, source_amount)
             k == swap_source_amount * swap_destination_amount
             out == swap_destination_amount - (k \div (swap_source_amount + e)) IN
         IF out > swap_destination_amount
           THEN [kind |-> "Err"]
           ELSE [kind |-> "Ok", destination_amount_swapped |-> out]

(***************************************************************************)
(* quote                                                                   *)
(***************************************************************************)
Panic(l) == [kind |-> "Panic", line |-> l]

\* `a as u64 - b`: a panic when the build checks overflow, the wrapped
\* difference when it does not
SubU64(a, b, overflow_checks) ==
  IF a >= b THEN [kind |-> "Ok", out_amount |-> a - b]
  ELSE IF overflow_checks THEN Panic(200)
  ELSE [kind |-> "Ok", out_amount |-> (a - b) % U64Modulus]

\* DestinationFee computed for epoch 0 instead of self.last_epoch
DestinationFeeAtEpochZero(destination_mint, raw) ==
  IF destination_mint.fee.some
    THEN calculate_epoch_fee(destination_mint.fee.v, 0, raw)
    ELSE Some(0)

\* lines 187-198: the transfer fee of the destination mint on the curve's
\* output, None when calculate_epoch_fee returns None (unwrapped at 195)
DestinationFee(destination_mint, raw) ==
  IF destination_mint.fee.some
    THEN calculate_epoch_fee(destination_mint.fee.v, last_epoch, raw)
    ELSE Some(0)

\* lines 176-205, once the curve has answered
QuoteOutput(a_to_b, swapped, overflow_checks) ==
  IF swapped.kind # "Ok" THEN Panic(204)
  ELSE
    LET destination_mint_raw == IF a_to_b THEN token_b_mint_raw ELSE token_a_mint_raw IN
    IF ~destination_mint_raw.some THEN Panic(IF a_to_b THEN 180 ELSE 182)
    ELSE
      LET raw == swapped.destination_amount_swapped % U64Modulus
          transfer_fee == DestinationFee(destination_mint_raw.v, raw) IN
      IF ~transfer_fee.some THEN Panic(195)
      ELSE SubU64(raw, transfer_fee.v, overflow_checks)

\* lines 132-175: how far quote() gets before it reads the curve's answer.
\* kind "Curve": the curve was asked and answered swapped (Ok or Err);
\* otherwise the outcome with which quote() ended earlier.
QuoteCurveAt(fees, input_mint, amount) ==
  LET a_to_b == input_mint = pool.token_a_mint
      source_mint_raw == IF a_to_b THEN token_a_mint_raw ELSE token_b_mint_raw IN
  IF ~source_mint_raw.some THEN Panic(IF a_to_b THEN 134 ELSE 136)
  ELSE
    LET cfg == source_mint_raw.v.fee
        actual_amount_in ==
          IF cfg.some
            THEN sub_input_transfer_fees_with_config(cfg.v, amount, last_epoch)
            ELSE [kind |-> "Ok", v |-> amount] IN
    IF actual_amount_in.kind # "Ok" THEN actual_amount_in
    ELSE IF ~(token_a_vault.some /\ token_b_vault.some) THEN Panic(160)
    ELSE IF ~curve.some THEN Panic(204)
    ELSE
      LET source_amount == IF a_to_b THEN token_a_vault.v ELSE token_b_vault.v
          destination_amount == IF a_to_b THEN token_b_vault.v ELSE token_a_vault.v IN
      [kind |-> "Curve", a_to_b |-> a_to_b,
       actual_amount_in |-> actual_amount_in.v,
       source_amount |-> source_amount,
       destination_amount |-> destination_amount,
       swapped |-> swap(actual_amount_in.v, source_amount, destination_amount,
                        fees)]

\* QuoteCurve with the two reserves handed to the curve the wrong way round
\* (line 163 / 165 with token_a_amount and token_b_amount exchanged)
QuoteCurveReservesReversed(input_mint, amount) ==
  LET a_to_b == input_mint = pool.token_a_mint
      source_mint_raw == IF a_to_b THEN token_a_mint_raw ELSE token_b_mint_raw IN
  IF ~source_mint_raw.some THEN Panic(IF a_to_b THEN 134 ELSE 136)
  ELSE
    LET cfg == source_mint_raw.v.fee
        actual_amount_in ==
          IF cfg.some
            THEN sub_input_transfer_fees_with_config(cfg.v, amount, last_epoch)
            ELSE [kind |-> "Ok", v |-> amount] IN
    IF actual_amount_in.kind # "Ok" THEN actual_amount_in
    ELSE IF ~(token_a_vault.some /\ token_b_vault.some) THEN Panic(160)
    ELSE IF ~curve.some THEN Panic(204)
    ELSE
      LET source_amount == IF a_to_b THEN token_b_vault.v ELSE token_a_vault.v
          destination_amount == IF a_to_b THEN token_a_vault.v ELSE token_b_vault.v IN
      [kind |-> "Curve", a_to_b |-> a_to_b,
       actual_amount_in |-> actual_amount_in.v,
       source_amount |-> source_amount,
       destination_amount |-> destination_amount,
       swapped |-> swap(actual_amount_in.v, source_amount, destination_amount,
                        pool.fees)]

\* lines 132-175 with the fees of the pool (self.pool.fees(), line 173)
QuoteCurve(input_mint, amount) == QuoteCurveAt(pool.fees, input_mint, amount)

\* quote(&QuoteParams {input_mint, amount, swap_mode, ..}); swap_mode is
\* not read
Quote(input_mint, amount, swap_mode, overflow_checks) ==
  LET c == QuoteCurve(input_mint, amount) IN
  IF c.kind # "Curve" THEN c ELSE QuoteOutput(c.a_to_b, c.swapped, overflow_checks)

QuoteStep ==
  /\ Constructed
  /\ \E input_mint \in InputMints, amount \in 0..MaxAmount, swap_mode \in SwapModes :
      /\ call' = [op |-> "quote", input_mint |-> input_mint, amount |-> amount,
                  swap_mode |-> swap_mode]
      \* the build checks overflow (debug) or does not (release)
      /\ result' \in { Quote(input_mint, amount, swap_mode, overflow_checks) :
                        overflow_checks \in BOOLEAN }
      /\ UNCHANGED << config, snapshot, written, sync_state >>

(***************************************************************************)
(* get_swap_and_account_metas                                              *)
(***************************************************************************)
\* anchor_spl::token::spl_token::id(), the original token program
SplTokenId == "tokenkeg"

\* SwapParams: the mints of the trade; the trader's accounts are fixed
SwapParams ==
  { p \in [source_mint : InputMints, destination_mint : InputMints] :
      p.source_mint # p.destination_mint }

source_token_account == "userSource"

destination_token_account == "userDestination"

token_transfer_authority == "user"

\* AccountMeta::new(pubkey, is_signer)
AccountMetaNew(pubkey, is_signer) ==
  [pubkey |-> pubkey, is_signer |-> is_signer, is_writable |-> TRUE]

\* AccountMeta::new_readonly(pubkey, is_signer)
AccountMetaNewReadonly(pubkey, is_signer) ==
  [pubkey |-> pubkey, is_signer |-> is_signer, is_writable |-> FALSE]

\* SourceAndDestination with the side of token A whatever the source mint is
SourceAndDestinationOfA(source_mint) ==
  [source_vault |-> pool.token_a_vault,
   source_fees_vault |-> pool.token_a_fees_vault,
   source_token_program |-> pool.token_a_program,
   destination_vault |-> pool.token_b_vault,
   destination_token_program |-> pool.token_b_program]

\* lines 217-239: the pool accounts in the source and the destination role
SourceAndDestination(source_mint) ==
  IF source_mint = pool.token_a_mint
    THEN [source_vault |-> pool.token_a_vault,
          source_fees_vault |-> pool.token_a_fees_vault,
          source_token_program |-> pool.token_a_program,
          destination_vault |-> pool.token_b_vault,
          destination_token_program |-> pool.token_b_program]
    ELSE [source_vault |-> pool.token_b_vault,
          source_fees_vault |-> pool.token_b_fees_vault,
          source_token_program |-> pool.token_b_program,
          destination_vault |-> pool.token_a_vault,
          destination_token_program |-> pool.token_a_program]

\* OrOriginalTokenProgram without the substitution
TokenProgramAsConfigured(token_program) == token_program

\* lines 241-246: a token program that is not set in the SwapPool account is
\* the original token program
OrOriginalTokenProgram(token_program) ==
  IF token_program = DefaultPubkey THEN SplTokenId ELSE token_program

get_swap_and_account_metas(swap_params) ==
  LET side == SourceAndDestination(swap_params.source_mint)
      source_token_program == OrOriginalTokenProgram(side.source_token_program)
      destination_token_program ==
        OrOriginalTokenProgram(side.destination_token_program) IN
  [kind |-> "Ok",
   swap |-> "TokenSwapV2",
   account_metas |->
     << AccountMetaNew(token_transfer_authority, TRUE),
        AccountMetaNew(market_key, FALSE),
        AccountMetaNewReadonly(pool_curve, FALSE),
        AccountMetaNewReadonly(pool.pool_authority, FALSE),
        AccountMetaNewReadonly(swap_params.source_mint, FALSE),
        AccountMetaNewReadonly(swap_params.destination_mint, FALSE),
        AccountMetaNew(side.source_vault, FALSE),
        AccountMetaNew(side.destination_vault, FALSE),
        AccountMetaNew(side.source_fees_vault, FALSE),
        AccountMetaNew(source_token_account, FALSE),
        AccountMetaNew(destination_token_account, FALSE),
        \* the source_token_host_fees_account: the program id means None
        AccountMetaNew(program_id, FALSE),
        AccountMetaNewReadonly(source_token_program, FALSE),
        AccountMetaNewReadonly(destination_token_program, FALSE) >> ]

\* get_swap_and_account_metas refusing to build the list until update() has
\* cached the curve, as quote() does at line 204
GetSwapAndAccountMetasStepAfterUpdate ==
  /\ Constructed
  /\ \E swap_params \in SwapParams :
      /\ call' = [op |-> "get_swap_and_account_metas",
                  source_mint |-> swap_params.source_mint,
                  destination_mint |-> swap_params.destination_mint]
      /\ result' = IF curve.some THEN get_swap_and_account_metas(swap_params)
                                 ELSE Panic(204)
      /\ UNCHANGED << config, snapshot, written, sync_state >>

\* get_swap_and_account_metas writing the token programs it resolved back
\* into self.pool instead of into its two local variables
GetSwapAndAccountMetasStepInPlace ==
  /\ Constructed
  /\ \E swap_params \in SwapParams :
      /\ call' = [op |-> "get_swap_and_account_metas",
                  source_mint |-> swap_params.source_mint,
                  destination_mint |-> swap_params.destination_mint]
      /\ result' = get_swap_and_account_metas(swap_params)
      /\ pool' = [pool EXCEPT !.token_a_program = OrOriginalTokenProgram(@),
                              !.token_b_program = OrOriginalTokenProgram(@)]
      /\ UNCHANGED << market_key, label, program_id, snapshot, written, sync_state >>

GetSwapAndAccountMetasStep ==
  /\ Constructed
  /\ \E swap_params \in SwapParams :
      /\ call' = [op |-> "get_swap_and_account_metas",
                  source_mint |-> swap_params.source_mint,
                  destination_mint |-> swap_params.destination_mint]
      /\ result' = get_swap_and_account_metas(swap_params)
      /\ UNCHANGED << config, snapshot, written, sync_state >>

Next == UpdateStep \/ QuoteStep \/ GetSwapAndAccountMetasStep

Spec == Init /\ [][Next]_vars

(***************************************************************************)
(* Properties.                                                             *)
(***************************************************************************)
IsUpdate(c) == c.op = "update"

IsQuote(c) == c.op = "quote"

\* C1: from a state that holds a published snapshot, an update() whose map
\* lacks a mandatory address (a vault, the curve account, the clock) leaves
\* every snapshot field as it was and puts the adapter in Stale.
C1_PartialUpdateKeepsSnapshot ==
  [][ (sync_state = "Synced" /\ IsUpdate(call') /\ ~call'.complete)
        => (snapshot' = snapshot /\ sync_state' = "Stale") ]_vars

\* C2: outside Synced (Configured or Stale) quote() returns the typed error:
\* it neither returns a value nor panics.
C2_QuoteOutsideSyncedIsTypedError ==
  (IsQuote(call) /\ sync_state # "Synced") => result.kind = "Err"

SnapshotAbsent ==
  /\ ~token_a_vault.some /\ ~token_b_vault.some /\ ~curve.some
  /\ ~token_a_mint_raw.some /\ ~token_b_mint_raw.some /\ last_epoch = 0

\* C3: every reachable snapshot is absent, or has both vault balances, the
\* curve and the epoch resolved from supplied accounts; no update() leaves a
\* vault balance absent or defaults the epoch because the clock was missing.
C3_NoPartialSnapshot ==
  /\ SnapshotAbsent \/ (token_a_vault.some /\ token_b_vault.some /\ curve.some)
  /\ (IsUpdate(call) /\ result # Panic(96)) => call.clock

\* C4: update() merges the batch with the cache: a tracked account that is
\* not in the supplied map (a mint in particular) keeps the value an earlier
\* update() cached for it.
C4_AbsentAccountsKeepCachedValue ==
  [][ IsUpdate(call') =>
        /\ pool.token_a_mint \notin call'.mints => token_a_mint_raw' = token_a_mint_raw
        /\ pool.token_b_mint \notin call'.mints => token_b_mint_raw' = token_b_mint_raw
        /\ ~call'.clock => last_epoch' = last_epoch ]_vars

\* C5: a reader sees the complete snapshot of one update(): the fields from
\* which quote() computes a value were all assigned by the same update() call,
\* never some by one call and the rest by an earlier one.
C5_ReaderSeesOneUpdate ==
  (IsQuote(call) /\ result.kind = "Ok") => written \in { {}, SnapshotFields }

\* C6: in Synced, when the curve computation fails (a reserve is 0, the
\* amount reaching the curve is 0, the output exceeds the reserve), quote()
\* returns the typed error, not a value and not a panic.
C6_CurveFailureIsTypedError ==
  (IsQuote(call) /\ sync_state = "Synced") =>
    LET c == QuoteCurve(call.input_mint, call.amount) IN
    (c.kind = "Curve" /\ c.swapped.kind = "Err") => result.kind = "Err"

\* C7: quote() with an input mint that is neither configured mint fails with
\* the typed error; it is not priced as one of the two configured mints.
\* Stated where nothing else can fail: in Synced, for an amount that is priced
\* when the input mint is token B's.
C7_ForeignMintIsTypedError ==
  (IsQuote(call) /\ sync_state = "Synced"
     /\ call.input_mint \notin {pool.token_a_mint, pool.token_b_mint}
     /\ Quote(pool.token_b_mint, call.amount, call.swap_mode, TRUE).kind = "Ok")
    => result.kind = "Err"

\* C8: quote() with a swap mode other than ExactIn fails with the typed
\* error and returns no value.  Stated where nothing else can fail: in
\* Synced, for a request that is priced when its mode is ExactIn.
C8_OtherModeIsTypedError ==
  (IsQuote(call) /\ sync_state = "Synced" /\ call.swap_mode # "ExactIn"
     /\ Quote(call.input_mint, call.amount, "ExactIn", TRUE).kind = "Ok")
    => result.kind = "Err"

\* C9: the reported amount is the curve's raw output minus the destination
\* mint's transfer fee on it, as numbers (no wrap-around); when that fee
\* exceeds the raw output quote() fails with the typed error.
C9_OutputIsRawMinusFee ==
  IsQuote(call) =>
    LET c == QuoteCurve(call.input_mint, call.amount)
        destination_mint_raw == IF call.input_mint = pool.token_a_mint
                                  THEN token_b_mint_raw ELSE token_a_mint_raw IN
    (c.kind = "Curve" /\ c.swapped.kind = "Ok" /\ destination_mint_raw.some) =>
      LET raw == c.swapped.destination_amount_swapped
          fee == DestinationFee(destination_mint_raw.v, raw) IN
      fee.some =>
        IF fee.v <= raw
          THEN result = [kind |-> "Ok", out_amount |-> raw - fee.v]
          ELSE result.kind = "Err"

\* C10: a quote that returns a value reports an output that is at most the
\* balance of the destination vault (vault B for A to B, vault A for B to A).
C10_OutputWithinDestinationVault ==
  (IsQuote(call) /\ result.kind = "Ok") =>
    /\ token_a_vault.some /\ token_b_vault.some
    /\ result.out_amount <=
         (IF call.input_mint = pool.token_a_mint THEN token_b_vault.v ELSE token_a_vault.v)

\* the request of the last call is a quote for a configured mint, made in
\* Synced, with both mint accounts cached
PricedRequest ==
  /\ IsQuote(call) /\ sync_state = "Synced"
  /\ call.input_mint \in {pool.token_a_mint, pool.token_b_mint}
  /\ token_a_mint_raw.some /\ token_b_mint_raw.some

NoTransferFees == ~token_a_mint_raw.v.fee.some /\ ~token_b_mint_raw.v.fee.some

\* reserveIn / reserveOut of the last call: the balance of the source /
\* destination vault for the direction of the trade
ReserveIn ==
  IF call.input_mint = pool.token_a_mint THEN token_a_vault.v ELSE token_b_vault.v

ReserveOut ==
  IF call.input_mint = pool.token_a_mint THEN token_b_vault.v ELSE token_a_vault.v

\* C11: in Synced, for mints without transfer fees, a quote of a positive
\* amount against positive reserves returns exactly
\* reserveOut - floor(reserveIn * reserveOut / (reserveIn + e)), where
\* e = amountIn - floor(amountIn * feeNumerator / feeDenominator) and
\* reserveIn / reserveOut are the source / destination vault balances.
C11_ConstantProductOutput ==
  (PricedRequest /\ NoTransferFees
     /\ call.amount > 0 /\ ReserveIn > 0 /\ ReserveOut > 0) =>
    LET e == call.amount
               - ((call.amount * pool.fees.trade_fee_numerator)
                    \div pool.fees.trade_fee_denominator)
        out == ReserveOut - ((ReserveIn * ReserveOut) \div (ReserveIn + e)) IN
    result = [kind |-> "Ok", out_amount |-> out]

\* reserves (1, 4), trade fee 1/2, 3 of token A in: e = 2, out = 4 - 4 \div 3
C11_Witness ==
  /\ PricedRequest /\ NoTransferFees
  /\ call.input_mint = pool.token_a_mint /\ call.amount = 3
  /\ ReserveIn = 1 /\ ReserveOut = 4
  /\ result = [kind |-> "Ok", out_amount |-> 3]

\* min(ceil(x * bps / 10000), maxFee) for the schedule of epoch p: the
\* older one before the transition epoch, the newer one from it on; no fee
\* for a mint without the extension
TransferFeeAt(mint, p, x) ==
  IF ~mint.fee.some THEN 0
  ELSE LET f == IF p < mint.fee.v.newer_transfer_fee.epoch
                  THEN mint.fee.v.older_transfer_fee
                  ELSE mint.fee.v.newer_transfer_fee
           raw == (x * f.transfer_fee_basis_points + 9999) \div 10000 IN
       IF raw <= f.maximum_fee THEN raw ELSE f.maximum_fee

SourceMint ==
  IF call.input_mint = pool.token_a_mint THEN token_a_mint_raw.v ELSE token_b_mint_raw.v

DestinationMint ==
  IF call.input_mint = pool.token_a_mint THEN token_b_mint_raw.v ELSE token_a_mint_raw.v

\* C12: the transfer fee quote() takes for a mint with a transfer-fee
\* configuration is min(ceil(x * bps / 10000), maxFee) at the schedule of the
\* cached epoch (older before the transition epoch, newer from it on): on the
\* source side x is the input amount, the curve prices the amount less the
\* fee, and a fee above the amount is a typed error; on the destination side
\* x is the curve's output and the reported amount is that output less the
\* fee in u64 arithmetic.
C12_TransferFeeBySchedule ==
  (PricedRequest /\ ReserveIn > 0 /\ ReserveOut > 0) =>
    LET fee_in == TransferFeeAt(SourceMint, last_epoch, call.amount)
        amount_in == call.amount - fee_in
        e == amount_in - ((amount_in * pool.fees.trade_fee_numerator)
                            \div pool.fees.trade_fee_denominator)
        raw == ReserveOut - ((ReserveIn * ReserveOut) \div (ReserveIn + e))
        fee_out == TransferFeeAt(DestinationMint, last_epoch, raw) IN
    /\ result.kind = "Err" <=> fee_in > call.amount
    /\ result.kind = "Ok" => result.out_amount = (raw - fee_out) % U64Modulus

\* epoch 0, 3 of token B in: the older schedule (50%, at most 1) takes
\* min(2, 1) = 1, the curve prices 2 on reserves (4, 1): 1 - 4 \div 5 = 1
C12_Witness ==
  /\ PricedRequest /\ call.input_mint = pool.token_b_mint /\ call.amount = 3
  /\ SourceMint.fee.some /\ last_epoch = 0
  /\ ReserveIn = 4 /\ ReserveOut = 1
  /\ result = [kind |-> "Ok", out_amount |-> 1]

\* trade-fee rates below, at and above the pool's
TradeFees ==
  { [trade_fee_numerator |-> n, trade_fee_denominator |-> 2] : n \in 0..2 }

\* f charges at least the rate of g
RateAtLeast(f, g) ==
  f.trade_fee_numerator * g.trade_fee_denominator
    >= g.trade_fee_numerator * f.trade_fee_denominator

\* quote() on the cached snapshot for a pool whose trade fee is fees
QuoteAtFees(fees, input_mint, amount, overflow_checks) ==
  LET c == QuoteCurveAt(fees, input_mint, amount) IN
  IF c.kind # "Curve" THEN c ELSE QuoteOutput(c.a_to_b, c.swapped, overflow_checks)

\* C13: on one snapshot and for one direction, in one build, a quote that
\* returns a value returns at least what every smaller amount that returns a
\* value does; and for the same amount, a pool with a higher trade-fee rate
\* returns no more, one with a lower rate no less.
C13_QuoteIsMonotone ==
  (IsQuote(call) /\ result.kind = "Ok") =>
    \A overflow_checks \in BOOLEAN :
      result = Quote(call.input_mint, call.amount, call.swap_mode, overflow_checks) =>
        /\ \A a1 \in 0..call.amount :
             LET q == Quote(call.input_mint, a1, call.swap_mode, overflow_checks) IN
             q.kind = "Ok" => q.out_amount <= result.out_amount
        /\ \A fees \in TradeFees :
             LET q == QuoteAtFees(fees, call.input_mint, call.amount, overflow_checks) IN
             q.kind = "Ok" =>
               /\ RateAtLeast(fees, pool.fees) => q.out_amount <= result.out_amount
               /\ RateAtLeast(pool.fees, fees) => q.out_amount >= result.out_amount

\* the other configured mint
OtherMint(mint) ==
  IF mint = pool.token_a_mint THEN pool.token_b_mint ELSE pool.token_a_mint

\* C14: on one unchanged snapshot, when a quote for a configured mint
\* returns b for amount a and the quote for the other mint returns c for
\* amount b, then c <= a, starting from either mint.
C14_RoundTripLosesValue ==
  (IsQuote(call) /\ result.kind = "Ok"
     /\ call.input_mint \in {pool.token_a_mint, pool.token_b_mint}) =>
    \A overflow_checks \in BOOLEAN :
      result = Quote(call.input_mint, call.amount, call.swap_mode, overflow_checks) =>
        LET back == Quote(OtherMint(call.input_mint), result.out_amount,
                          call.swap_mode, overflow_checks) IN
        back.kind = "Ok" => back.out_amount <= call.amount

IsGetSwapAndAccountMetas(c) == c.op = "get_swap_and_account_metas"

\* the addresses the 14 positions must hold when the source role is played
\* by the given vault, fee vault and token program and the destination role
\* by the other vault and token program
AccountsInOrder(source_vault, destination_vault, source_fees_vault,
                source_program, destination_program) ==
  << token_transfer_authority, market_key, pool_curve, pool.pool_authority,
     call.source_mint, call.destination_mint,
     source_vault, destination_vault, source_fees_vault,
     source_token_account, destination_token_account, program_id,
     source_program, destination_program >>

\* the program emitted for a configured token program: the original token
\* program for the zero address, the configured address otherwise
EmittedProgram(configured) ==
  IF configured = "11111111" THEN "tokenkeg" ELSE configured

\* C15: get_swap_and_account_metas returns 14 account references whose
\* signer / writable flags do not depend on the direction (only the transfer
\* authority signs; the curve account, the pool authority, the two mints and
\* the two token programs are read-only), in the documented order; selling
\* token A puts vault A, fee vault A and program A in the source role and
\* vault B and program B in the destination role, selling token B the
\* reverse.
C15_FourteenAccountsInOrder ==
  IsGetSwapAndAccountMetas(call) =>
    /\ result.kind = "Ok"
    /\ Len(result.account_metas) = 14
    /\ \A i \in 1..14 :
         /\ result.account_metas[i].is_signer = (i = 1)
         /\ result.account_metas[i].is_writable = (i \notin {3, 4, 5, 6, 13, 14})
    /\ call.source_mint = pool.token_a_mint =>
         [i \in 1..14 |-> result.account_metas[i].pubkey]
           = AccountsInOrder(pool.token_a_vault, pool.token_b_vault,
                             pool.token_a_fees_vault,
                             EmittedProgram(pool.token_a_program),
                             EmittedProgram(pool.token_b_program))
    /\ call.source_mint = pool.token_b_mint =>
         [i \in 1..14 |-> result.account_metas[i].pubkey]
           = AccountsInOrder(pool.token_b_vault, pool.token_a_vault,
                             pool.token_b_fees_vault,
                             EmittedProgram(pool.token_b_program),
                             EmittedProgram(pool.token_a_program))

\* the list built for selling token B
C15_Witness ==
  /\ IsGetSwapAndAccountMetas(call)
  /\ call.source_mint = pool.token_b_mint
  /\ call.destination_mint = pool.token_a_mint
  /\ result.account_metas[7].pubkey = pool.token_b_vault
  /\ result.account_metas[9].pubkey = pool.token_b_fees_vault

\* C16: the two token-program entries (positions 13 and 14) are never the
\* zero address; for either direction each is the original token program
\* when the pool's token program of that side is the zero address and the
\* configured address otherwise.
C16_TokenProgramNeverZero ==
  IsGetSwapAndAccountMetas(call) =>
    LET source_program == result.account_metas[13].pubkey
        destination_program == result.account_metas[14].pubkey IN
    /\ source_program # "11111111" /\ destination_program # "11111111"
    /\ call.source_mint = pool.token_a_mint =>
         /\ source_program = EmittedProgram(pool.token_a_program)
         /\ destination_program = EmittedProgram(pool.token_b_program)
    /\ call.source_mint = pool.token_b_mint =>
         /\ source_program = EmittedProgram(pool.token_b_program)
         /\ destination_program = EmittedProgram(pool.token_a_program)

\* selling token A, whose token program is not set in the pool account:
\* the original token program is the source program, the program of token B
\* is emitted as configured
C16_Witness ==
  /\ IsGetSwapAndAccountMetas(call)
  /\ call.source_mint = pool.token_a_mint
  /\ pool.token_a_program = "11111111" /\ pool.token_b_program # "11111111"
  /\ result.account_metas[13].pubkey = "tokenkeg"
  /\ result.account_metas[14].pubkey = pool.token_b_program

\* the cached mint account carries a transfer-fee configuration
HasTransferFee(mint_raw) == mint_raw.some /\ mint_raw.v.fee.some

\* C17: in Synced, when neither mint has transfer-fee data (its account has
\* no extension, or was not supplied at all), a quote of a positive amount
\* for a configured mint against positive reserves returns the curve's
\* output with nothing deducted; it neither fails nor panics.
C17_MissingFeeDataMeansNoFee ==
  (IsQuote(call) /\ sync_state = "Synced"
     /\ call.input_mint \in {pool.token_a_mint, pool.token_b_mint}
     /\ ~HasTransferFee(token_a_mint_raw) /\ ~HasTransferFee(token_b_mint_raw)
     /\ call.amount > 0 /\ ReserveIn > 0 /\ ReserveOut > 0) =>
    LET e == call.amount - trading_fee(pool.fees, call.amount) IN
    /\ result.kind = "Ok"
    /\ result.out_amount = ReserveOut - ((ReserveIn * ReserveOut) \div (ReserveIn + e))

\* quote() ended because state that an update() must have cached is absent:
\* the unwrap of a mint (134, 136, 180, 182), the panic for the vaults (160),
\* the panic for the curve (204) while the curve is absent.  The code's
\* counterpart of the specification's StateError.
MissingState(r) ==
  /\ r.kind = "Panic"
  /\ \/ r.line \in {134, 136, 160, 180, 182}
     \/ r.line = 204 /\ ~curve.some

\* C18: whatever the state before, an update() that returns with both
\* vaults, the curve account and the clock supplied leaves the adapter in
\* Synced, and the ExactIn quote for a configured mint that follows does not
\* fail for missing state.
C18_CompleteUpdateRecovers ==
  [][ (IsUpdate(call) /\ call.complete /\ result.kind = "Ok") =>
        /\ sync_state = "Synced"
        /\ (IsQuote(call') /\ call'.swap_mode = "ExactIn"
              /\ call'.input_mint \in {pool.token_a_mint, pool.token_b_mint})
             => ~MissingState(result') ]_vars

\* C19: constructing the adapter from a pool account whose discriminator is
\* not SwapPool's fails with a typed error: it does not panic and it yields
\* no instance.
C19_BadDiscriminatorIsTypedError ==
  (call.op = "new" /\ call.discriminator # "SwapPool") =>
    result.kind = "Err" /\ ~Constructed

\* C20: no operation changes the pool configuration, the pool address, the
\* label or the program id; a step that changes any other field of the
\* adapter is an update(); quote() and get_swap_and_account_metas leave every
\* field as it was, whatever they return.
C20_OnlyUpdateWrites ==
  [][ /\ config' = config
      /\ snapshot' # snapshot => IsUpdate(call')
      /\ (IsQuote(call') \/ IsGetSwapAndAccountMetas(call'))
           => (config' = config /\ snapshot' = snapshot) ]_vars

\* a quote that panicked on an adapter that an update() had filled
C20_Witness ==
  /\ IsQuote(call) /\ result.kind = "Panic"
  /\ pool = SwapPool /\ program_id = HyperplaneId /\ market_key = "market"
  /\ token_a_vault.some /\ token_b_vault.some /\ curve.some

\* the addresses get_swap_and_account_metas lists for swap_params on the
\* adapter as new_from_keyed_account built it, before any update()
AccountsAtConstruction(swap_params) ==
  LET a_is_source == swap_params.source_mint = SwapPool.token_a_mint IN
  << token_transfer_authority, "market", pool_curve, SwapPool.pool_authority,
     swap_params.source_mint, swap_params.destination_mint,
     IF a_is_source THEN SwapPool.token_a_vault ELSE SwapPool.token_b_vault,
     IF a_is_source THEN SwapPool.token_b_vault ELSE SwapPool.token_a_vault,
     IF a_is_source THEN SwapPool.token_a_fees_vault ELSE SwapPool.token_b_fees_vault,
     source_token_account, destination_token_account, HyperplaneId,
     EmittedProgram(IF a_is_source THEN SwapPool.token_a_program
                                   ELSE SwapPool.token_b_program),
     EmittedProgram(IF a_is_source THEN SwapPool.token_b_program
                                   ELSE SwapPool.token_a_program) >>

\* C21: get_swap_and_account_metas depends on the pool configuration and
\* its arguments only: in every state of a constructed adapter, before the
\* first update() and after any sequence of them, it succeeds for any
\* arguments and lists the addresses it lists right after construction; and
\* that is what a call returns.
C21_AccountMetasIgnoreSnapshot ==
  Constructed =>
    /\ \A swap_params \in SwapParams :
         LET r == get_swap_and_account_metas(swap_params) IN
         /\ r.kind = "Ok"
         /\ [i \in 1..Len(r.account_metas) |-> r.account_metas[i].pubkey]
              = AccountsAtConstruction(swap_params)
    /\ IsGetSwapAndAccountMetas(call) =>
         result = get_swap_and_account_metas(
                    [source_mint |-> call.source_mint,
                     destination_mint |-> call.destination_mint])

\* the list built before any update(), as the simulation test does
C21_Witness ==
  /\ IsGetSwapAndAccountMetas(call) /\ result.kind = "Ok"
  /\ sync_state = "Configured" /\ ~curve.some /\ written = {}
  /\ Len(result.account_metas) = 14

\* what the six cached fields are after update(m), from m alone: the
\* balance of each vault account, the two mint accounts, the curve and the
\* epoch of the clock account, None (0 for the epoch) for an absent account
SnapshotOf(m) ==
  << IF m.vaultA.some THEN Some(m.vaultA.v.amount) ELSE None,
     IF m.vaultB.some THEN Some(m.vaultB.v.amount) ELSE None,
     m.mintA, m.mintB,
     Some(m.curve.v.curve_type),
     IF m.clock.some THEN m.clock.v.epoch ELSE 0 >>

====
